---------------------------- MODULE Spec2Model ----------------------------
(***************************************************************************)
(* Model of src/speech.py: the SpeechTranscriber (construction,            *)
(* calibration, the recognition callback run by the background listener    *)
(* thread, changeStatus) and the parts of App that drive it (the mute      *)
(* button, the polling drain of the transcript queue, on_closing).         *)
(*                                                                         *)
(* Threads.  The Tk main thread runs the constructor and then one handler  *)
(* at a time (button, drain, close).  recognizer.listen_in_background      *)
(* (line 75) starts one daemon thread that repeatedly listens for a        *)
(* segment and then calls callback(recognizer, audio) itself, inline,      *)
(* before it listens again.  The stop function it returns is stored in     *)
(* self.stopper and never called anywhere in the file, so the listener's   *)
(* loop condition never changes and is not a variable here.                *)
(*                                                                         *)
(* A handler of the main thread is one step (the drain: one step per turn    *)
(* of its loop): the listener reads _muted once per segment and the queue   *)
(* operations are atomic, so a finer interleaving shows no other state      *)
(* between handlers.  StringVar.set is taken as an assignment, from either  *)
(* thread.                                                                  *)
(*                                                                         *)
(* Not modelled: the branch "sr is None" (line 34), which the import at    *)
(* line 4 makes unreachable, and _format_text / transform_text (the        *)
(* formatting panel), which touch neither the transcriber nor the queue.   *)
(***************************************************************************)
EXTENDS Integers, Sequences, FiniteSets, TLC

\* Number of audio segments the listener captures in a run.
MaxSegments == 3
\* Number of presses of the mute button in a run.
MaxToggles == 2

Segments == 1..MaxSegments

VARIABLES
    initpc,          \* position of the main thread in SpeechTranscriber.__init__
    recognizer,      \* self.recognizer is not None
    microphone,      \* self.microphone is not None
    stopper,         \* self.stopper is not None
    active,          \* self.active
    muted,           \* self._muted
    status_var,      \* the status StringVar
    debug_var,       \* the debug StringVar
    output_queue,    \* queue.Queue shared by the listener and the drain
    micHeld,         \* who is inside "with microphone": "none", "calib", "listener"
    lpc,             \* position of the listener thread
    cur,             \* the segment the listener thread is handling (0: none)
    nextSeg,         \* number of the next segment to be captured
    appState,        \* "running", "destroyed" (on_closing done), "exited" (process gone)
    mainpc,          \* "idle" or "drain" (inside _drain_transcript_queue's loop)
    closeReq,        \* WM_DELETE_WINDOW has been requested
    btn_text,        \* text of btn_stop
    txt_transcript,  \* what was inserted in the transcript box, in order
    lastRet,         \* value returned by the last changeStatus call
    toggles,         \* number of completed changeStatus calls
    initResult,      \* how construction ended
    hist,            \* per segment: what happened to it (observation only)
    pollScheduled,   \* an after(100, _drain_transcript_queue) timer is pending
    log              \* counts of listener threads, device uses, calibrations (observation only)

vars == << initpc, recognizer, microphone, stopper, active, muted, status_var,
           debug_var, output_queue, micHeld, lpc, cur, nextSeg, appState,
           mainpc, closeReq, btn_text, txt_transcript, lastRet, toggles,
           initResult, hist, pollScheduled, log >>

-----------------------------------------------------------------------------
(* Strings.  Recognised texts and queue chunks are sequences of characters, *)
(* so that startswith, splitlines and strip are computed, not assumed.      *)

NL == "\n"
Whitespace == {" ", NL}

\* Texts the recognition backend may return.
Texts == { <<" ", "h">>, <<"[", "m", "]">> }

\* str.startswith(c) for a one-character prefix.
StartsWith(s, c) == Len(s) > 0 /\ s[1] = c

\* s.splitlines()[0] of a non-empty string: the characters before the first newline.
RECURSIVE FirstLine(_)
FirstLine(s) ==
    IF s = <<>> \/ Head(s) = NL THEN <<>>
    ELSE <<Head(s)>> \o FirstLine(Tail(s))

\* c in s
Contains(s, c) == \E i \in 1..Len(s) : s[i] = c

RECURSIVE LStrip(_, _)
LStrip(s, chars) ==
    IF s # <<>> /\ Head(s) \in chars THEN LStrip(Tail(s), chars) ELSE s

RECURSIVE RStrip(_, _)
RStrip(s, chars) ==
    IF s # <<>> /\ s[Len(s)] \in chars
    THEN RStrip(SubSeq(s, 1, Len(s) - 1), chars) ELSE s

\* str.strip(chars): drop leading and trailing characters that are in chars.
Strip(s, chars) == RStrip(LStrip(s, chars), chars)

\* The status texts the program sets, by tag; "line" carries the text of a
\* status line taken from the queue.
Status(tag) == [tag |-> tag, text |-> <<>>]
StatusLine(s) == [tag |-> "line", text |-> s]

-----------------------------------------------------------------------------
(* Observation of segments: filled in by the listener's steps, read only by *)
(* the properties.                                                          *)

NoHist == [capMuted |-> FALSE, entry |-> "none", outcome |-> "none",
           puts |-> 0, statusSets |-> 0]

-----------------------------------------------------------------------------
Init ==
    /\ initpc = "audio_init"
    /\ recognizer = FALSE
    /\ microphone = FALSE
    /\ stopper = FALSE
    /\ active = FALSE
    /\ muted = FALSE
    /\ status_var = Status("")
    /\ debug_var = Status("")
    /\ output_queue = <<>>
    /\ micHeld = "none"
    /\ lpc = "none"
    /\ cur = 0
    /\ nextSeg = 1
    /\ appState = "running"
    /\ mainpc = "idle"
    /\ closeReq = FALSE
    /\ btn_text = "Stop Listening"
    /\ txt_transcript = <<>>
    /\ lastRet = "nocall"
    /\ toggles = 0
    /\ initResult = "pending"
    /\ hist = [s \in Segments |-> NoHist]
    /\ pollScheduled = FALSE
    /\ log = [listeners |-> 0, acquires |-> 0, releases |-> 0, calibrations |-> 0]


-----------------------------------------------------------------------------
(* SpeechTranscriber.__init__, run by the main thread inside App.__init__.  *)

\* Lines 39-42: the recognizer and the microphone object are created.
AudioInitOk ==
    /\ initpc = "audio_init"
    /\ recognizer' = TRUE
    /\ microphone' = TRUE
    /\ initpc' = "calibrate"
    /\ UNCHANGED << stopper, active, muted, status_var, debug_var, output_queue,
                    micHeld, lpc, cur, nextSeg, appState, mainpc, closeReq,
                    btn_text, txt_transcript, lastRet, toggles, initResult, hist, pollScheduled, log >>

\* Lines 44-46: sr.Recognizer() or sr.Microphone() raised; the constructor returns.
\* The recognizer exists iff it was the microphone that failed.
AudioInitFail ==
    /\ initpc = "audio_init"
    /\ recognizer' \in BOOLEAN
    /\ status_var' = Status("[Audio init error]")
    /\ initpc' = "done"
    /\ initResult' = "audio_fail"
    /\ pollScheduled' = TRUE
    /\ UNCHANGED << microphone, stopper, active, muted, debug_var, output_queue,
                    micHeld, lpc, cur, nextSeg, appState, mainpc, closeReq,
                    btn_text, txt_transcript, lastRet, toggles, hist, log >>

\* Lines 50-51: "with self.microphone as source" opens the device, then the
\* status reads "Calibrating".
CalibrateEnter ==
    /\ initpc = "calibrate"
    /\ micHeld' = "calib"
    /\ status_var' = Status("Calibrating")
    /\ initpc' = "adjust"
    /\ log' = [log EXCEPT !.calibrations = @ + 1]
    /\ UNCHANGED << recognizer, microphone, stopper, active, muted, debug_var,
                    output_queue, lpc, cur, nextSeg, appState, mainpc, closeReq,
                    btn_text, txt_transcript, lastRet, toggles, initResult, hist, pollScheduled >>

\* Lines 50, 54-56: opening the device raised (e.g. permission denied): nothing
\* was acquired, the status reads the error, the constructor returns.
CalibrateEnterFail ==
    /\ initpc = "calibrate"
    /\ status_var' = Status("[Calibration error]")
    /\ initpc' = "done"
    /\ initResult' = "calib_fail"
    /\ pollScheduled' = TRUE
    /\ UNCHANGED << recognizer, microphone, stopper, active, muted, debug_var,
                    output_queue, micHeld, lpc, cur, nextSeg, appState, mainpc,
                    closeReq, btn_text, txt_transcript, lastRet, toggles, hist, log >>

\* Lines 52-53: adjust_for_ambient_noise returns, the debug text is set, and
\* the with block ends, which releases the device.
CalibrateAdjustOk ==
    /\ initpc = "adjust"
    /\ debug_var' = Status("Calibration complete")
    /\ micHeld' = "none"
    /\ initpc' = "listen_start"
    /\ UNCHANGED << recognizer, microphone, stopper, active, muted, status_var,
                    output_queue, lpc, cur, nextSeg, appState, mainpc, closeReq,
                    btn_text, txt_transcript, lastRet, toggles, initResult, hist, pollScheduled, log >>

\* The same step with the "return" of line 56 missing.
CalibrateAdjustFail_NoReturn ==
    /\ initpc = "adjust"
    /\ micHeld' = "none"
    /\ status_var' = Status("[Calibration error]")
    /\ initpc' = "listen_start"
    /\ initResult' = "calib_fail"
    /\ UNCHANGED << recognizer, microphone, stopper, active, muted, debug_var,
                    output_queue, lpc, cur, nextSeg, appState, mainpc, closeReq,
                    btn_text, txt_transcript, lastRet, toggles, hist, pollScheduled, log >>

\* Lines 52, 54-56: adjust_for_ambient_noise raised: the with block releases
\* the device on the way out, the status reads the error, the constructor returns.
CalibrateAdjustFail ==
    /\ initpc = "adjust"
    /\ micHeld' = "none"
    /\ status_var' = Status("[Calibration error]")
    /\ initpc' = "done"
    /\ initResult' = "calib_fail"
    /\ pollScheduled' = TRUE
    /\ UNCHANGED << recognizer, microphone, stopper, active, muted, debug_var,
                    output_queue, lpc, cur, nextSeg, appState, mainpc, closeReq,
                    btn_text, txt_transcript, lastRet, toggles, hist, log >>

\* Line 75: listen_in_background starts the listener thread, which enters its
\* own "with source" and listens; the stop function is stored.
ListenStart ==
    /\ initpc = "listen_start"
    /\ stopper' = TRUE
    /\ lpc' = "listen"
    /\ micHeld' = "listener"
    /\ initpc' = "set_active"
    /\ log' = [log EXCEPT !.listeners = @ + 1, !.acquires = @ + 1]
    /\ UNCHANGED << recognizer, microphone, active, muted, status_var, debug_var,
                    output_queue, cur, nextSeg, appState, mainpc, closeReq,
                    btn_text, txt_transcript, lastRet, toggles, initResult, hist, pollScheduled >>

\* Lines 75, 78-79: listen_in_background raised before starting a thread.
ListenStartFail ==
    /\ initpc = "listen_start"
    /\ status_var' = Status("[Listen error]")
    /\ initpc' = "done"
    /\ initResult' = "listen_fail"
    /\ pollScheduled' = TRUE
    /\ UNCHANGED << recognizer, microphone, stopper, active, muted, debug_var,
                    output_queue, micHeld, lpc, cur, nextSeg, appState, mainpc,
                    closeReq, btn_text, txt_transcript, lastRet, toggles, hist, log >>

\* Line 76.
SetActive ==
    /\ initpc = "set_active"
    /\ active' = TRUE
    /\ initpc' = "set_status"
    /\ UNCHANGED << recognizer, microphone, stopper, muted, status_var, debug_var,
                    output_queue, micHeld, lpc, cur, nextSeg, appState, mainpc,
                    closeReq, btn_text, txt_transcript, lastRet, toggles,
                    initResult, hist, pollScheduled, log >>

\* Line 77; the constructor returns, App.__init__ schedules the first poll
\* (line 137) and the main loop starts (line 305).
SetListening ==
    /\ initpc = "set_status"
    /\ status_var' = Status("Listening")
    /\ initpc' = "done"
    /\ initResult' = "ok"
    /\ pollScheduled' = TRUE
    /\ UNCHANGED << recognizer, microphone, stopper, active, muted, debug_var,
                    output_queue, micHeld, lpc, cur, nextSeg, appState, mainpc,
                    closeReq, btn_text, txt_transcript, lastRet, toggles, hist, log >>

-----------------------------------------------------------------------------
(* The listener thread started at line 75 and the callback of lines 58-71.  *)
(* The thread is a daemon: it runs until the process is gone.               *)

ListenerRuns == appState # "exited"

\* The same put at the head of the queue.
QueuePut_Front(q, item) == <<item>> \o q

\* The same put on a queue of capacity 1 that drops the text when full.
QueuePut_DropWhenFull(q, item) == IF Len(q) >= 1 THEN q ELSE Append(q, item)

\* queue.Queue.put of line 66 (unbounded FIFO: never blocks), with the
\* segment the text belongs to noted beside it.
QueuePut(q, item) == Append(q, item)

\* The same step taken also while the callback of the previous segment is
\* still in its recognition (recognition handed to another thread).
Capture_DuringRecognition ==
    /\ ListenerRuns
    /\ lpc \in {"listen", "recognize"}
    /\ nextSeg <= MaxSegments
    /\ cur' = nextSeg
    /\ nextSeg' = nextSeg + 1
    /\ lpc' = "callback"
    /\ hist' = [hist EXCEPT ![nextSeg].capMuted = muted]
    /\ UNCHANGED << initpc, recognizer, microphone, stopper, active, muted,
                    status_var, debug_var, output_queue, micHeld, appState,
                    mainpc, closeReq, btn_text, txt_transcript, lastRet,
                    toggles, initResult, pollScheduled, log >>

\* The listener's listen() returns an audio segment; the thread is about to
\* call callback(recognizer, audio).
Capture ==
    /\ ListenerRuns
    /\ lpc = "listen"
    /\ nextSeg <= MaxSegments
    /\ cur' = nextSeg
    /\ nextSeg' = nextSeg + 1
    /\ lpc' = "callback"
    /\ hist' = [hist EXCEPT ![nextSeg].capMuted = muted]
    /\ UNCHANGED << initpc, recognizer, microphone, stopper, active, muted,
                    status_var, debug_var, output_queue, micHeld, appState,
                    mainpc, closeReq, btn_text, txt_transcript, lastRet,
                    toggles, initResult, pollScheduled, log >>

\* The same step with the test of lines 59-60 missing.
CallbackEntry_NoMuteCheck ==
    /\ ListenerRuns
    /\ lpc = "callback"
    /\ lpc' = "recognize"
    /\ hist' = [hist EXCEPT ![cur].entry = IF muted THEN "muted" ELSE "unmuted",
                            ![cur].outcome = "inflight"]
    /\ UNCHANGED << initpc, recognizer, microphone, stopper, active, muted,
                    status_var, debug_var, output_queue, micHeld, cur, nextSeg,
                    appState, mainpc, closeReq, btn_text, txt_transcript,
                    lastRet, toggles, initResult, pollScheduled, log >>

\* Lines 59-61, 64: the callback reads _muted once; muted, it returns at once;
\* otherwise it calls recognize_faster_whisper on the segment.
CallbackEntry ==
    /\ ListenerRuns
    /\ lpc = "callback"
    /\ IF muted
       THEN /\ lpc' = "listen"
            /\ hist' = [hist EXCEPT ![cur].entry = "muted",
                                    ![cur].outcome = "discarded"]
       ELSE /\ lpc' = "recognize"
            /\ hist' = [hist EXCEPT ![cur].entry = "unmuted",
                                    ![cur].outcome = "inflight"]
    /\ UNCHANGED << initpc, recognizer, microphone, stopper, active, muted,
                    status_var, debug_var, output_queue, micHeld, cur, nextSeg,
                    appState, mainpc, closeReq, btn_text, txt_transcript,
                    lastRet, toggles, initResult, pollScheduled, log >>

\* Lines 64-66: the recognition returns a text, which is put on the queue;
\* the callback returns and the thread listens again.
RecognizeText ==
    /\ ListenerRuns
    /\ lpc = "recognize"
    /\ \E t \in Texts :
          output_queue' = QueuePut(output_queue, [seg |-> cur, text |-> t])
    /\ lpc' = "listen"
    /\ hist' = [hist EXCEPT ![cur].outcome = "text",
                            ![cur].puts = hist[cur].puts + 1]
    /\ UNCHANGED << initpc, recognizer, microphone, stopper, active, muted,
                    status_var, debug_var, micHeld, cur, nextSeg, appState,
                    mainpc, closeReq, btn_text, txt_transcript, lastRet,
                    toggles, initResult, pollScheduled, log >>

\* Lines 67-69: sr.UnknownValueError is swallowed.
RecognizeUnknownValue ==
    /\ ListenerRuns
    /\ lpc = "recognize"
    /\ lpc' = "listen"
    /\ hist' = [hist EXCEPT ![cur].outcome = "nospeech"]
    /\ UNCHANGED << initpc, recognizer, microphone, stopper, active, muted,
                    status_var, debug_var, output_queue, micHeld, cur, nextSeg,
                    appState, mainpc, closeReq, btn_text, txt_transcript,
                    lastRet, toggles, initResult, pollScheduled, log >>

\* The same step with the handler of sr.RequestError re-raising: the
\* exception leaves the callback and ends the thread.
RecognizeRequestError_Raise ==
    /\ ListenerRuns
    /\ lpc = "recognize"
    /\ status_var' = Status("[Recognizer error]")
    /\ lpc' = "dead"
    /\ micHeld' = "none"
    /\ hist' = [hist EXCEPT ![cur].outcome = "reqerr",
                            ![cur].statusSets = hist[cur].statusSets + 1]
    /\ log' = [log EXCEPT !.releases = @ + 1]
    /\ UNCHANGED << initpc, recognizer, microphone, stopper, active, muted,
                    debug_var, output_queue, cur, nextSeg, appState, mainpc,
                    closeReq, btn_text, txt_transcript, lastRet, toggles,
                    initResult, pollScheduled >>

\* Lines 70-71: sr.RequestError sets the status text; the callback returns.
RecognizeRequestError ==
    /\ ListenerRuns
    /\ lpc = "recognize"
    /\ status_var' = Status("[Recognizer error]")
    /\ lpc' = "listen"
    /\ hist' = [hist EXCEPT ![cur].outcome = "reqerr",
                            ![cur].statusSets = hist[cur].statusSets + 1]
    /\ UNCHANGED << initpc, recognizer, microphone, stopper, active, muted,
                    debug_var, output_queue, micHeld, cur, nextSeg, appState,
                    mainpc, closeReq, btn_text, txt_transcript, lastRet,
                    toggles, initResult, pollScheduled, log >>

\* Lines 61-71: any other exception of the recognition (no except clause
\* matches it) leaves the callback, unwinds the listener thread's loop and its
\* "with source", which releases the device, and ends the thread.
RecognizeOtherError ==
    /\ ListenerRuns
    /\ lpc = "recognize"
    /\ lpc' = "dead"
    /\ micHeld' = "none"
    /\ hist' = [hist EXCEPT ![cur].outcome = "raised"]
    /\ log' = [log EXCEPT !.releases = @ + 1]
    /\ UNCHANGED << initpc, recognizer, microphone, stopper, active, muted,
                    status_var, debug_var, output_queue, cur, nextSeg, appState,
                    mainpc, closeReq, btn_text, txt_transcript, lastRet,
                    toggles, initResult, pollScheduled >>

-----------------------------------------------------------------------------
(* The handlers of App, run one at a time by the Tk main loop once the      *)
(* constructor has returned.                                                *)

MainIdle == initpc = "done" /\ appState = "running" /\ mainpc = "idle"

\* The same method setting the flag instead of flipping it.
changeStatus_SetOnly ==
    /\ muted' = TRUE
    /\ status_var' = Status("Stoped Listening.")
    /\ lastRet' = "None"
    /\ toggles' = toggles + 1

\* Lines 81-86: SpeechTranscriber.changeStatus flips _muted and sets the
\* status text for the new value.  It has no return statement: the call
\* evaluates to None.  It does not read self.active.
changeStatus ==
    /\ muted' = ~muted
    /\ status_var' = IF muted' THEN Status("Stoped Listening.")
                     ELSE Status("Listening")
    /\ lastRet' = "None"
    /\ toggles' = toggles + 1

\* The same handler calling the stop function when it mutes.
ChangeListenStatus_StopsListener ==
    /\ MainIdle
    /\ toggles < MaxToggles
    /\ changeStatus
    /\ btn_text' = IF muted' THEN "Resume Listening" ELSE "Stop Listening"
    /\ lpc' = IF muted' /\ lpc = "listen" THEN "dead" ELSE lpc
    /\ micHeld' = IF muted' /\ lpc = "listen" THEN "none" ELSE micHeld
    /\ UNCHANGED << initpc, recognizer, microphone, stopper, active, debug_var,
                    output_queue, cur, nextSeg, appState, mainpc,
                    closeReq, txt_transcript, initResult, hist, pollScheduled, log >>

\* Lines 175-184: the button's command.  The transcriber attribute exists
\* whenever the main loop runs, so the early return of line 177 is not taken.
ChangeListenStatus ==
    /\ MainIdle
    /\ toggles < MaxToggles
    /\ changeStatus
    /\ btn_text' = IF muted' THEN "Resume Listening" ELSE "Stop Listening"
    /\ UNCHANGED << initpc, recognizer, microphone, stopper, active, debug_var,
                    output_queue, micHeld, lpc, cur, nextSeg, appState, mainpc,
                    closeReq, txt_transcript, initResult, hist, pollScheduled, log >>

\* Line 273: the chunk counts as a status line.
IsStatusLine(chunk) == StartsWith(chunk, "[") /\ Contains(FirstLine(chunk), "]")

\* Line 284: what _append_transcript inserts.
TranscriptInsert(text) == Strip(text, Whitespace) \o <<" ">>

\* Line 290: what _append_status inserts.
StatusInsert(line) == <<NL>> \o line \o <<NL>>

\* The timer set at line 137 or 280 fires: _drain_transcript_queue starts.
DrainStart ==
    /\ MainIdle
    /\ pollScheduled
    /\ mainpc' = "drain"
    /\ pollScheduled' = FALSE
    /\ UNCHANGED << initpc, recognizer, microphone, stopper, active, muted,
                    status_var, debug_var, output_queue, micHeld, lpc, cur,
                    nextSeg, appState, closeReq, btn_text, txt_transcript,
                    lastRet, toggles, initResult, hist, log >>

\* The same get taking the newest chunk.
QueueGet_Last(q) == [item |-> q[Len(q)], rest |-> SubSeq(q, 1, Len(q) - 1)]

\* queue.Queue.get_nowait of line 271 on a non-empty queue: the oldest chunk.
QueueGet(q) == [item |-> Head(q), rest |-> Tail(q)]

\* Lines 271-276: one turn of the loop with a chunk available.
DrainGet ==
    /\ mainpc = "drain"
    /\ output_queue # <<>>
    /\ LET got   == QueueGet(output_queue)
           chunk == got.item.text
       IN /\ output_queue' = got.rest
          /\ IF IsStatusLine(chunk)
             THEN /\ txt_transcript' = Append(txt_transcript,
                        [seg |-> got.item.seg, via |-> "status",
                         text |-> StatusInsert(chunk)])
                  /\ status_var' = StatusLine(Strip(chunk, {"[", "]"}))
             ELSE /\ txt_transcript' = Append(txt_transcript,
                        [seg |-> got.item.seg, via |-> "transcript",
                         text |-> TranscriptInsert(chunk)])
                  /\ UNCHANGED status_var
    /\ UNCHANGED << initpc, recognizer, microphone, stopper, active, muted,
                    debug_var, micHeld, lpc, cur, nextSeg, appState, mainpc,
                    closeReq, btn_text, lastRet, toggles, initResult, hist, pollScheduled, log >>

\* The same step with the re-scheduling of line 280 missing.
DrainEmpty_NoReschedule ==
    /\ mainpc = "drain"
    /\ output_queue = <<>>
    /\ mainpc' = "idle"
    /\ UNCHANGED << initpc, recognizer, microphone, stopper, active, muted,
                    status_var, debug_var, output_queue, micHeld, lpc, cur,
                    nextSeg, appState, closeReq, btn_text, txt_transcript,
                    lastRet, toggles, initResult, hist, pollScheduled, log >>

\* Lines 277-280: get_nowait raises queue.Empty; the next poll is scheduled
\* and the handler returns.
DrainEmpty ==
    /\ mainpc = "drain"
    /\ output_queue = <<>>
    /\ mainpc' = "idle"
    /\ pollScheduled' = TRUE
    /\ UNCHANGED << initpc, recognizer, microphone, stopper, active, muted,
                    status_var, debug_var, output_queue, micHeld, lpc, cur,
                    nextSeg, appState, closeReq, btn_text, txt_transcript,
                    lastRet, toggles, initResult, hist, log >>

\* The user closes the window: WM_DELETE_WINDOW is queued for the main loop.
CloseRequest ==
    /\ initpc = "done"
    /\ appState = "running"
    /\ ~closeReq
    /\ closeReq' = TRUE
    /\ UNCHANGED << initpc, recognizer, microphone, stopper, active, muted,
                    status_var, debug_var, output_queue, micHeld, lpc, cur,
                    nextSeg, appState, mainpc, btn_text, txt_transcript,
                    lastRet, toggles, initResult, hist, pollScheduled, log >>

\* The same handler calling the stop function and waiting for the listener
\* thread to finish its current callback.
OnClosing_Join ==
    /\ MainIdle
    /\ closeReq
    /\ lpc \notin {"callback", "recognize"}
    /\ changeStatus
    /\ appState' = "destroyed"
    /\ UNCHANGED << initpc, recognizer, microphone, stopper, active, debug_var,
                    output_queue, micHeld, lpc, cur, nextSeg, mainpc, closeReq,
                    btn_text, txt_transcript, initResult, hist, pollScheduled, log >>

\* Lines 294-299: on_closing calls changeStatus (not the stop function) and
\* destroys the window; it waits for nothing.
OnClosing ==
    /\ MainIdle
    /\ closeReq
    /\ changeStatus
    /\ appState' = "destroyed"
    /\ UNCHANGED << initpc, recognizer, microphone, stopper, active, debug_var,
                    output_queue, micHeld, lpc, cur, nextSeg, mainpc, closeReq,
                    btn_text, txt_transcript, initResult, hist, pollScheduled, log >>

\* Lines 303-305: mainloop returns after destroy, the script ends and the
\* interpreter exits; the daemon listener thread ends with the process.
ProcessExit ==
    /\ appState = "destroyed"
    /\ appState' = "exited"
    /\ UNCHANGED << initpc, recognizer, microphone, stopper, active, muted,
                    status_var, debug_var, output_queue, micHeld, lpc, cur,
                    nextSeg, mainpc, closeReq, btn_text, txt_transcript,
                    lastRet, toggles, initResult, hist, pollScheduled, log >>

-----------------------------------------------------------------------------
Next ==
    \/ AudioInitOk
    \/ AudioInitFail
    \/ CalibrateEnter
    \/ CalibrateEnterFail
    \/ CalibrateAdjustOk
    \/ CalibrateAdjustFail
    \/ ListenStart
    \/ ListenStartFail
    \/ SetActive
    \/ SetListening
    \/ Capture
    \/ CallbackEntry
    \/ RecognizeText
    \/ RecognizeUnknownValue
    \/ RecognizeRequestError
    \/ RecognizeOtherError
    \/ ChangeListenStatus
    \/ DrainStart
    \/ DrainGet
    \/ DrainEmpty
    \/ CloseRequest
    \/ OnClosing
    \/ ProcessExit

Spec == Init /\ [][Next]_vars

\* The Tk main loop runs every queued handler and a handler's non-blocking
\* loop runs to its end; the interpreter exits once the main loop has
\* returned.  Nothing is assumed of the user, of the audio or of the
\* recognition backend: a recognition may never return.
FairSpec ==
    /\ Spec
    /\ WF_vars(DrainGet)
    /\ WF_vars(DrainEmpty)
    /\ SF_vars(OnClosing)
    /\ WF_vars(ProcessExit)

\* FairSpec, and the constructor runs to its end and a pending poll timer
\* fires while the window exists.
PollSpec ==
    /\ FairSpec
    /\ WF_vars(SetActive)
    /\ WF_vars(SetListening)
    /\ WF_vars(DrainStart)

-----------------------------------------------------------------------------
(* Properties.                                                              *)

Captured(s) == s < nextSeg
\* The callback of segment s has been entered (line 59 has run for it).
Entered(s) == hist[s].entry # "none"
\* recognize_faster_whisper has been called on segment s (line 64).
RecognizeCalled(s) ==
    hist[s].outcome \in {"inflight", "text", "nospeech", "reqerr", "raised"}
\* The segments of the chunks in a sequence of queue items or insertions.
SegsOf(q) == [i \in 1..Len(q) |-> q[i].seg]
StrictlyIncreasing(f) == \A i, j \in 1..Len(f) : i < j => f[i] < f[j]
\* Some chunk of segment s is on the queue or has reached the transcript box.
HasChunk(s) ==
    \/ \E i \in 1..Len(output_queue) : output_queue[i].seg = s
    \/ \E i \in 1..Len(txt_transcript) : txt_transcript[i].seg = s

\* C1 as stated: a segment captured while the flag is muted (between a toggle
\* to muted and the next toggle to unmuted) never leads to a Recognize call,
\* and a segment captured while unmuted leads to one once its callback has run.
C1_CapturedWhileMutedNeverRecognized ==
    \A s \in Segments :
        Captured(s) =>
            /\ hist[s].capMuted => ~RecognizeCalled(s)
            /\ (~hist[s].capMuted /\ Entered(s)) => RecognizeCalled(s)

\* C1 amended: the flag is read once, when the callback is entered: a segment
\* whose callback is entered while muted leads to no Recognize call and to no
\* event, and a segment whose callback is entered while unmuted leads to a
\* Recognize call.
C1_MuteGateReadAtCallbackEntry ==
    \A s \in Segments :
        /\ hist[s].entry = "muted" =>
              /\ ~RecognizeCalled(s)
              /\ ~HasChunk(s)
              /\ hist[s].statusSets = 0
        /\ hist[s].entry = "unmuted" => RecognizeCalled(s)
        /\ (lpc = "recognize" /\ cur = s) => hist[s].entry = "unmuted"

\* A segment was discarded under mute and a later one was recognised after unmute.
C1_Witness ==
    \E s, t \in Segments :
        s < t /\ hist[s].entry = "muted" /\ hist[t].outcome = "text"

\* C2: the texts the drain has delivered, followed by those still queued, are
\* in the order in which their segments were captured.
C2_DeliveredInCaptureOrder ==
    StrictlyIncreasing(SegsOf(txt_transcript) \o SegsOf(output_queue))

\* Two texts were delivered while a third, recognised later, is still queued.
C2_Witness == Len(txt_transcript) >= 2 /\ Len(output_queue) >= 1

\* C3: a segment whose recognition reported no speech produced no event (no
\* chunk, no status); a segment whose recognition reported a request error
\* produced exactly one status and no chunk; and after either the listener
\* thread is listening for the next segment.
C3_NoSpeechSilent_RequestErrorOneStatus ==
    \A s \in Segments :
        /\ hist[s].outcome = "nospeech" =>
              ~HasChunk(s) /\ hist[s].statusSets = 0
        /\ hist[s].outcome = "reqerr" =>
              ~HasChunk(s) /\ hist[s].statusSets = 1
        /\ (hist[s].outcome \in {"nospeech", "reqerr"} /\ cur = s) => lpc = "listen"

\* A no-speech segment, a request error and, after the error, a recognised text.
C3_Witness ==
    \E s, t, u \in Segments :
        /\ hist[s].outcome = "nospeech"
        /\ hist[t].outcome = "reqerr"
        /\ t < u
        /\ hist[u].outcome = "text"

\* C4: after a failed calibration the engine is stopped for good: active is
\* False, stopper is None and no listener thread exists.
C4_CalibrationFailureNeverListens ==
    initResult = "calib_fail" =>
        ~active /\ ~stopper /\ lpc = "none" /\ nextSeg = 1

\* Calibration failed and the program went on (the mute button was pressed).
C4_Witness == initResult = "calib_fail" /\ toggles > 0

\* C5 as stated: once on_closing has completed, no step puts a text on the
\* queue or sets the status.
C5_NoEventAfterStop ==
    [][appState # "running" =>
          (output_queue' = output_queue /\ status_var' = status_var)]_vars

\* C6 as stated: no outcome of a recognition leaves the callback as an
\* exception; the listener thread is never ended by one.
C6_NoErrorEscapesCallback ==
    lpc # "dead" /\ \A s \in Segments : hist[s].outcome # "raised"

\* C7 as stated: a changeStatus call made while active is False leaves the
\* mute flag and the status text as they were.
C7_ToggleWhileStoppedIsNoOp ==
    [][(~active /\ toggles' # toggles) =>
          (muted' = muted /\ status_var' = status_var)]_vars

C10_MicrophoneReleasedAtStop ==
    /\ appState # "running" => micHeld = "none"
    /\ initResult \in {"audio_fail", "calib_fail"} => micHeld = "none"


\* C11 as stated: at most one listener thread is started, and when the stop
\* has completed the device was acquired once and released once for listening.
C11_OneListenerOneAcquireReleasePair ==
    /\ log.listeners <= 1
    /\ (appState # "running" /\ log.listeners = 1) =>
          (log.acquires = 1 /\ log.releases = 1)

\* The chunks of segment s that are queued or were delivered.
ChunkCount(s) ==
    Cardinality({i \in 1..Len(output_queue) : output_queue[i].seg = s})
    + Cardinality({i \in 1..Len(txt_transcript) : txt_transcript[i].seg = s})
Queued(s) == \E i \in 1..Len(output_queue) : output_queue[i].seg = s
Delivered(s) == \E i \in 1..Len(txt_transcript) : txt_transcript[i].seg = s
\* A step that inserts in the transcript box takes the head of the queue.
FifoStep ==
    Len(txt_transcript') # Len(txt_transcript) =>
        /\ output_queue # <<>>
        /\ output_queue' = Tail(output_queue)
        /\ SegsOf(txt_transcript') =
              Append(SegsOf(txt_transcript), Head(output_queue).seg)

\* C12: every text the callback has put is on the queue or was delivered,
\* exactly once; a recognition that returns a text can always put it; the
\* drain takes from the head; and while the window exists and the poll timer
\* fires, every queued text is eventually delivered.
C12_TextNeverDropped ==
    /\ [](\A s \in Segments : ChunkCount(s) = hist[s].puts /\ hist[s].puts <= 1)
    /\ []((lpc = "recognize" /\ ListenerRuns) => ENABLED RecognizeText)
    /\ [][FifoStep]_vars
    /\ \A s \in Segments : Queued(s) ~> (Delivered(s) \/ appState # "running")

\* The texts of three segments were each put once and all were delivered.
C12_Witness ==
    /\ Len(txt_transcript) = 3
    /\ \A s \in 1..3 : hist[s].puts = 1

\* The calibration of lines 50-53 has completed.
Calibrated == debug_var = Status("Calibration complete")

\* C13 as stated: calibration runs at most once, the listener exists only
\* after a completed calibration, and the mute flag is true only in an engine
\* that has calibrated.
C13_CalibratedOnceBeforeListeningOrMuted ==
    /\ log.calibrations <= 1
    /\ lpc # "none" => (Calibrated /\ log.calibrations = 1)
    /\ muted => Calibrated

\* C14: a step that completes a changeStatus call leaves the recognizer, the
\* microphone, the stop function, the active flag, the listener thread, the
\* device and the queue as they were.
C14_ToggleLeavesPipeline ==
    [][toggles' # toggles =>
          UNCHANGED << recognizer, microphone, stopper, active, micHeld, lpc,
                       cur, nextSeg, output_queue, txt_transcript, hist >>]_vars

\* Muted by the button while the listener was listening, and a segment was
\* captured afterwards, still muted.
C14_Witness ==
    /\ toggles >= 1
    /\ appState = "running"
    /\ \E s \in Segments : hist[s].capMuted /\ hist[s].entry = "muted"

\* C15 as stated: while a recognition is in flight the listener can capture
\* the next segment.
C15_CaptureProceedsDuringRecognition ==
    (lpc = "recognize" /\ ListenerRuns /\ nextSeg <= MaxSegments) => ENABLED Capture

\* The callback of segment s has returned or raised.
Finished(s) ==
    hist[s].outcome \in {"discarded", "text", "nospeech", "reqerr", "raised"}

\* C15 amended: the recognition runs inline in the callback on the listener
\* thread: a segment is captured only when the callback of every earlier
\* segment has finished, so while a recognition is in flight no segment is
\* captured, and capture is possible again as soon as the callback has returned.
C15_CaptureWaitsForRecognition ==
    /\ \A s \in Segments : (Captured(s) /\ s # cur) => Finished(s)
    /\ lpc \in {"callback", "recognize"} => ~ENABLED Capture
    /\ (lpc = "listen" /\ ListenerRuns /\ nextSeg <= MaxSegments) => ENABLED Capture

\* A second segment is in recognition after the first one's text was put.
C15_Witness == cur = 2 /\ lpc = "recognize" /\ hist[1].outcome = "text"

\* C16: while the window exists and no handler runs, a poll is scheduled; the
\* drain returns only on an empty queue and then has re-scheduled the poll; it
\* takes the chunks from the head of the queue one by one; and every drain
\* that has started returns.
C16_DrainNeverBlocksAndReschedules ==
    /\ [](MainIdle => pollScheduled)
    /\ [][(mainpc = "drain" /\ mainpc' = "idle") =>
             (output_queue = <<>> /\ pollScheduled')]_vars
    /\ [][FifoStep]_vars
    /\ (mainpc = "drain") ~> (mainpc = "idle")

\* A drain delivered two chunks and returned, and the next poll is scheduled.
C16_Witness ==
    /\ mainpc = "idle"
    /\ pollScheduled
    /\ appState = "running"
    /\ Len(txt_transcript) >= 2

\* C17 as stated: while the mute flag is true no step puts a text on the queue.
C17_NoPutWhileMuted ==
    [][muted => Len(output_queue') <= Len(output_queue)]_vars

\* C18 as stated: every chunk the drain has handled (all are recognised
\* texts) went to the transcript path, and the status text never shows a chunk.
C18_RecognisedTextRoutedToTranscript ==
    /\ \A i \in 1..Len(txt_transcript) : txt_transcript[i].via = "transcript"
    /\ status_var.tag # "line"

\* C19 as stated: while the window is shown, the button reads "Resume
\* Listening" iff muted and "Stop Listening" iff not, and the status reads
\* "Listening" only when the transcriber is unmuted and active.
C19_ShownStateMatchesMuteFlag ==
    (initpc = "done" /\ appState = "running") =>
        /\ (btn_text = "Resume Listening") <=> muted
        /\ (btn_text = "Stop Listening") <=> ~muted
        /\ status_var = Status("Listening") => (~muted /\ active)

=============================================================================
